---- MODULE Spec2Model ----
(***************************************************************************)
(* Model of the lic command-line client (src/cli/src): the persisted       *)
(* Config, the Api client with its response decoder, and the seven command *)
(* handlers dispatched by main.  One process invocation is                 *)
(*   Main (Config::load, dispatch) -> <Command>Run -> <response> -> Exit   *)
(* and invocations follow each other, sharing only the configuration file. *)
(* Texts are TLA+ strings and are assembled with \o exactly where the code *)
(* uses format!/push_str/join.  Texts the code inspects character by       *)
(* character (the --from/--to dates) are tuples of one-character strings.  *)
(***************************************************************************)
EXTENDS Integers, Sequences, FiniteSets, TLC

VARIABLES
    file,       \* the configuration file: absent, or the JSON Config::save wrote
    pc,         \* position of the process: "idle", "run", "await", "done"
    cmd,        \* the parsed command line (Cli::parse) of this invocation
    config,     \* the Config main loaded at startup
    locals,     \* what the command keeps across its client call
    requests,   \* the HTTP requests handed to the transport in this invocation
    received,   \* the reply the transport gave to the request, once it came
    called,     \* the Result of the command's client call, once it returned
    outcome,    \* what the command returned to main
    loads,      \* number of Config::load calls in this invocation
    saves,      \* number of Config::save calls in this invocation
    loggedIn    \* history: some login command has returned Ok since first run

vars ==
    <<file, pc, cmd, config, locals, requests, received, called, outcome, loads, saves,
      loggedIn>>

(***************************************************************************)
(* Bounds of the model.                                                    *)
(***************************************************************************)
MaxLimit == 10      \* the largest --limit value tried

(***************************************************************************)
(* Option<T>                                                               *)
(***************************************************************************)
None == [some |-> FALSE]
Some(x) == [some |-> TRUE, v |-> x]
IsSome(o) == o.some
IsNone(o) == ~o.some
OptionOf(S) == {None} \cup {Some(x) : x \in S}
\* Option::unwrap_or_default for Option<String>
UnwrapOrDefault(o) == IF o.some THEN o.v ELSE ""
\* Option::unwrap_or
UnwrapOr(o, d) == IF o.some THEN o.v ELSE d

(***************************************************************************)
(* Decimal rendering of integers (Display for usize / u16, and the         *)
(* zero-padded fields of chrono's %Y-%m-%d).                               *)
(***************************************************************************)
DigitChars == <<"0", "1", "2", "3", "4", "5", "6", "7", "8", "9">>

RECURSIVE NatToString(_)
NatToString(n) ==
    IF n < 10 THEN DigitChars[n + 1]
    ELSE NatToString(n \div 10) \o DigitChars[(n % 10) + 1]

\* chrono's zero padding of a numeric field to `width` digits
RECURSIVE PadLeft(_, _)
PadLeft(s, width) == IF Len(s) >= width THEN s ELSE PadLeft("0" \o s, width)

ZeroPad(n, width) == PadLeft(NatToString(n), width)

(***************************************************************************)
(* HTTP status codes (reqwest::StatusCode).                                *)
(***************************************************************************)
Statuses == {200, 201, 204, 400, 500}

\* StatusCode::OK
StatusOK == 200

\* StatusCode::is_success
IsSuccess(status) == 200 <= status /\ status < 300

\* StatusCode::canonical_reason for the modelled codes
CanonicalReason(status) ==
    CASE status = 200 -> "OK"
      [] status = 201 -> "Created"
      [] status = 204 -> "No Content"
      [] status = 400 -> "Bad Request"
      [] status = 500 -> "Internal Server Error"
      [] OTHER -> "<unknown status code>"

\* Display for StatusCode: "<code> <canonical reason>"
StatusDisplay(status) == NatToString(status) \o " " \o CanonicalReason(status)

(***************************************************************************)
(* JSON values (serde_json::Value), tagged so that values of different     *)
(* JSON types can be compared.                                             *)
(***************************************************************************)
JInvalid == [t |-> "invalid"]     \* the text is not JSON: from_str fails
JNull == [t |-> "null"]
JStr(s) == [t |-> "str", s |-> s]
JInt(n) == [t |-> "int", n |-> n]
JFloat(txt) == [t |-> "float", txt |-> txt]
JArr(items) == [t |-> "arr", items |-> items]
JObj(fields) == [t |-> "obj", fields |-> fields]

\* Value's Index<&str>: the member, or Null for a missing key or a non-object
JIndex(j, key) ==
    IF j.t = "obj" /\ key \in DOMAIN j.fields THEN j.fields[key] ELSE JNull

\* Value::as_str
AsStr(j) == IF j.t = "str" THEN Some(j.s) ELSE None

(***************************************************************************)
(* The response bodies the modelled server can send, as raw text.          *)
(***************************************************************************)
BodyToken == "{\"token\":\"tok1\"}"
BodyEmptyToken == "{\"token\":\"\"}"
BodyCtlToken == "{\"token\":\"a\\nb\"}"
BodyNumToken == "{\"token\":7}"
BodyError == "{\"error\":\"invalid status\"}"
BodyEmptyArray == "[]"
BodyRankings == "[{\"name\":\"alice\",\"score\":9.5,\"streak\":3,\"average_arrival_time\":\"08:55\",\"stats\":{\"in_office\":5,\"remote\":0,\"sick\":0,\"leave\":0,\"days\":5}}]"
BodyStreaks == "[{\"username\":\"alice\",\"current_streak\":2,\"max_streak\":4,\"streak_start\":null}]"
BodyQuery == "[{\"date\":\"2024-01-01\",\"name\":\"alice\",\"status\":\"remote\",\"time\":\"08:55\",\"score\":7}]"
BodyStats == "{\"average_arrival_time\":\"08:55\",\"score\":9.5,\"stats\":{\"days\":5,\"in_office\":5,\"remote\":0,\"sick\":0,\"leave\":0}}"
BodyNegStats == "{\"average_arrival_time\":\"08:55\",\"score\":9.5,\"stats\":{\"days\":-1,\"in_office\":5,\"remote\":0,\"sick\":0,\"leave\":0}}"
BodyHtml == "<html>Bad Gateway</html>"
BodyEmpty == ""

Bodies ==
    { BodyToken, BodyEmptyToken, BodyCtlToken, BodyNumToken, BodyError,
      BodyEmptyArray, BodyRankings, BodyStreaks, BodyQuery, BodyStats,
      BodyNegStats, BodyHtml, BodyEmpty }

RankingStatsJson == JObj([in_office |-> JInt(5), remote |-> JInt(0), sick |-> JInt(0), leave |-> JInt(0), days |-> JInt(5)])

\* serde_json::from_str::<Value>: the JSON value each modelled text denotes
ParseJson(text) ==
    CASE text = BodyToken -> JObj([token |-> JStr("tok1")])
      [] text = BodyEmptyToken -> JObj([token |-> JStr("")])
      [] text = BodyCtlToken -> JObj([token |-> JStr("a\nb")])
      [] text = BodyNumToken -> JObj([token |-> JInt(7)])
      [] text = BodyError -> JObj([error |-> JStr("invalid status")])
      [] text = BodyEmptyArray -> JArr(<<>>)
      [] text = BodyRankings ->
            JArr(<<JObj([name |-> JStr("alice"), score |-> JFloat("9.5"),
                         streak |-> JInt(3),
                         average_arrival_time |-> JStr("08:55"),
                         stats |-> RankingStatsJson])>>)
      [] text = BodyStreaks ->
            JArr(<<JObj([username |-> JStr("alice"), current_streak |-> JInt(2),
                         max_streak |-> JInt(4), streak_start |-> JNull])>>)
      [] text = BodyQuery ->
            JArr(<<JObj([date |-> JStr("2024-01-01"), name |-> JStr("alice"),
                         status |-> JStr("remote"), time |-> JStr("08:55"),
                         score |-> JInt(7)])>>)
      [] text = BodyStats ->
            JObj([average_arrival_time |-> JStr("08:55"), score |-> JFloat("9.5"),
                  stats |-> RankingStatsJson])
      [] text = BodyNegStats ->
            JObj([average_arrival_time |-> JStr("08:55"), score |-> JFloat("9.5"),
                  stats |-> JObj([in_office |-> JInt(5), remote |-> JInt(0),
                                  sick |-> JInt(0), leave |-> JInt(0),
                                  days |-> JInt(-1)])])
      [] OTHER -> JInvalid

(***************************************************************************)
(* Result<T, anyhow::Error>.  An error is its Display text and the text of *)
(* the error it wraps ("" when it wraps none).                             *)
(***************************************************************************)
Ok(v) == [ok |-> TRUE, v |-> v]
Err(e) == [ok |-> FALSE, e |-> e]
Unit == [unit |-> TRUE]

\* anyhow::anyhow!(msg) / anyhow::bail!(msg)
Anyhow(msg) == [msg |-> msg, source |-> ""]
\* Context::with_context: the context becomes the message, the error its source
WithContext(result, context) ==
    IF result.ok THEN result
    ELSE Err([msg |-> context, source |-> result.e.msg])

\* the reqwest::Error values of the transport, converted by `?`
SendError == Anyhow("error sending request")
BodyReadError == Anyhow("error decoding response body")
JsonBodyError == Anyhow("error decoding response body: invalid JSON")
\* http::header::InvalidHeaderValue
InvalidHeaderValue == Anyhow("failed to parse header value")
\* serde_json::Error
SerdeSyntaxError == Anyhow("expected value at line 1 column 1")
SerdeDataError == Anyhow("invalid type or missing field")

(***************************************************************************)
(* Deserialize for the response models (models.rs).                        *)
(***************************************************************************)
HasField(j, key) == j.t = "obj" /\ key \in DOMAIN j.fields
IsString(j) == j.t = "str"
IsF64(j) == j.t \in {"int", "float"}
IsI32(j) == j.t = "int" /\ j.n >= -2147483647 - 1 /\ j.n <= 2147483647
\* u32::MAX is above every integer of the model
IsU32(j) == j.t = "int" /\ j.n >= 0
StringField(j, key) == HasField(j, key) /\ IsString(j.fields[key])
F64Field(j, key) == HasField(j, key) /\ IsF64(j.fields[key])
I32Field(j, key) == HasField(j, key) /\ IsI32(j.fields[key])
U32Field(j, key) == HasField(j, key) /\ IsU32(j.fields[key])
\* Option<i32>: a missing member and null both decode to None
OptI32Field(j, key) ==
    j.t = "obj" /\ (key \in DOMAIN j.fields =>
                        (j.fields[key].t = "null" \/ IsI32(j.fields[key])))
OptI32Value(j, key) ==
    IF key \in DOMAIN j.fields /\ j.fields[key].t = "int"
    THEN Some(j.fields[key].n) ELSE None
\* Option<NaiveDate>: null, missing, or a string chrono accepts
IsoDates == {"2024-01-01", "2024-12-31"}
OptDateField(j, key) ==
    j.t = "obj" /\ (key \in DOMAIN j.fields =>
                        (j.fields[key].t = "null"
                         \/ (IsString(j.fields[key]) /\ j.fields[key].s \in IsoDates)))
OptDateValue(j, key) ==
    IF key \in DOMAIN j.fields /\ j.fields[key].t = "str"
    THEN Some(j.fields[key].s) ELSE None

IsRankingStats(j) ==
    /\ I32Field(j, "in_office") /\ I32Field(j, "remote") /\ I32Field(j, "sick")
    /\ I32Field(j, "leave") /\ I32Field(j, "days")
ToRankingStats(j) ==
    [in_office |-> j.fields.in_office.n, remote |-> j.fields.remote.n,
     sick |-> j.fields.sick.n, leave |-> j.fields.leave.n, days |-> j.fields.days.n]

IsRanking(j) ==
    /\ StringField(j, "name") /\ F64Field(j, "score") /\ OptI32Field(j, "streak")
    /\ StringField(j, "average_arrival_time")
    /\ HasField(j, "stats") /\ IsRankingStats(j.fields.stats)
ToRanking(j) ==
    [name |-> j.fields.name.s, score |-> j.fields.score,
     streak |-> OptI32Value(j, "streak"),
     average_arrival_time |-> j.fields.average_arrival_time.s,
     stats |-> ToRankingStats(j.fields.stats)]

IsStreak(j) ==
    /\ StringField(j, "username") /\ I32Field(j, "current_streak")
    /\ I32Field(j, "max_streak") /\ OptDateField(j, "streak_start")
ToStreak(j) ==
    [username |-> j.fields.username.s, current_streak |-> j.fields.current_streak.n,
     max_streak |-> j.fields.max_streak.n,
     streak_start |-> OptDateValue(j, "streak_start")]

IsQueryResult(j) ==
    /\ StringField(j, "date") /\ StringField(j, "name") /\ StringField(j, "status")
    /\ StringField(j, "time") /\ F64Field(j, "score") /\ OptI32Field(j, "streak")
ToQueryResult(j) ==
    [date |-> j.fields.date.s, name |-> j.fields.name.s, status |-> j.fields.status.s,
     time |-> j.fields.time.s, score |-> j.fields.score,
     streak |-> OptI32Value(j, "streak")]

IsStatsDetail(j) ==
    /\ U32Field(j, "days") /\ U32Field(j, "in_office") /\ U32Field(j, "remote")
    /\ U32Field(j, "sick") /\ U32Field(j, "leave")
IsStatsResponse(j) ==
    /\ StringField(j, "average_arrival_time") /\ F64Field(j, "score")
    /\ HasField(j, "stats") /\ IsStatsDetail(j.fields.stats)
ToStatsResponse(j) ==
    [average_arrival_time |-> j.fields.average_arrival_time.s,
     score |-> j.fields.score, stats |-> ToRankingStats(j.fields.stats)]

\* Deserialize for the result types T that handle_response is instantiated
\* with: "Vec<Ranking>", "Vec<Streak>", "StatsResponse", "Vec<QueryResult>"
IsShape(shape, j) ==
    CASE shape = "Vec<Ranking>" ->
            j.t = "arr" /\ \A i \in DOMAIN j.items : IsRanking(j.items[i])
      [] shape = "Vec<Streak>" ->
            j.t = "arr" /\ \A i \in DOMAIN j.items : IsStreak(j.items[i])
      [] shape = "Vec<QueryResult>" ->
            j.t = "arr" /\ \A i \in DOMAIN j.items : IsQueryResult(j.items[i])
      [] shape = "StatsResponse" -> IsStatsResponse(j)
      [] OTHER -> FALSE

ToShape(shape, j) ==
    CASE shape = "Vec<Ranking>" ->
            [shape |-> shape, items |-> [i \in DOMAIN j.items |-> ToRanking(j.items[i])]]
      [] shape = "Vec<Streak>" ->
            [shape |-> shape, items |-> [i \in DOMAIN j.items |-> ToStreak(j.items[i])]]
      [] shape = "Vec<QueryResult>" ->
            [shape |-> shape, items |-> [i \in DOMAIN j.items |-> ToQueryResult(j.items[i])]]
      [] OTHER -> [shape |-> shape, item |-> ToStatsResponse(j)]

\* serde_json::from_str::<T>(text)
FromStr(shape, text) ==
    LET j == ParseJson(text) IN
    IF j.t = "invalid" THEN Err(SerdeSyntaxError)
    ELSE IF ~IsShape(shape, j) THEN Err(SerdeDataError)
    ELSE Ok(ToShape(shape, j))

(***************************************************************************)
(* chrono::NaiveDate: formatting with "%Y-%m-%d" and parsing with          *)
(* NaiveDate::parse_from_str(text, "%Y-%m-%d").  The text to parse is a    *)
(* tuple of characters.  A numeric field takes one digit at least and its  *)
(* width at most (4 for %Y without a sign, 2 for %m and %d); text left     *)
(* over after %d is an error, and so is a date that does not exist.        *)
(***************************************************************************)
Date(y, m, d) == [y |-> y, m |-> m, d |-> d]

\* NaiveDate::format("%Y-%m-%d").to_string()
FormatDate(date) ==
    ZeroPad(date.y, 4) \o "-" \o ZeroPad(date.m, 2) \o "-" \o ZeroPad(date.d, 2)

IsDigit(c) == \E i \in 1..10 : DigitChars[i] = c
DigitValue(c) == (CHOOSE i \in 1..10 : DigitChars[i] = c) - 1

\* chrono's scan::number(s, 1, max): the digits at pos, at most max of them
RECURSIVE ScanNumber(_, _, _, _, _)
ScanNumber(chars, pos, max, taken, acc) ==
    IF taken < max /\ pos <= Len(chars) /\ IsDigit(chars[pos])
    THEN ScanNumber(chars, pos + 1, max, taken + 1, acc * 10 + DigitValue(chars[pos]))
    ELSE [ok |-> taken >= 1, val |-> acc, next |-> pos]

IsLeapYear(y) == (y % 4 = 0 /\ y % 100 # 0) \/ y % 400 = 0
DaysInMonth(y, m) ==
    IF m = 2 THEN (IF IsLeapYear(y) THEN 29 ELSE 28)
    ELSE IF m \in {4, 6, 9, 11} THEN 30 ELSE 31

\* chrono::ParseError
DateParseError == Anyhow("input contains invalid characters")
DateTooLongError == Anyhow("trailing input")
DateRangeError == Anyhow("input is out of range")

ParseDate(chars) ==
    LET yr == ScanNumber(chars, 1, 4, 0, 0)
        dash1 == yr.ok /\ yr.next <= Len(chars) /\ chars[yr.next] = "-"
        mo == ScanNumber(chars, yr.next + 1, 2, 0, 0)
        dash2 == dash1 /\ mo.ok /\ mo.next <= Len(chars) /\ chars[mo.next] = "-"
        dy == ScanNumber(chars, mo.next + 1, 2, 0, 0)
    IN  IF ~(dash2 /\ dy.ok) THEN Err(DateParseError)
        ELSE IF dy.next <= Len(chars) THEN Err(DateTooLongError)
        ELSE IF mo.val < 1 \/ mo.val > 12 \/ dy.val < 1
                \/ dy.val > DaysInMonth(yr.val, mo.val)
             THEN Err(DateRangeError)
        ELSE Ok(Date(yr.val, mo.val, dy.val))

\* Option<String>::map(parse).transpose()
\* mutant: a text that does not parse is dropped as if the flag were absent
ParseOptDate_Lenient(opt) ==
    IF IsNone(opt) THEN Ok(None)
    ELSE LET r == ParseDate(opt.v) IN IF r.ok THEN Ok(Some(r.v)) ELSE Ok(None)

ParseOptDate(opt) ==
    IF IsNone(opt) THEN Ok(None)
    ELSE LET r == ParseDate(opt.v) IN IF r.ok THEN Ok(Some(r.v)) ELSE r

(***************************************************************************)
(* Config (config.rs): the persisted session.                              *)
(***************************************************************************)
DefaultApiUrl == "http://localhost:4030"

\* mutant: the first-run session starts with an (empty) token
DefaultConfig_EmptyToken ==
    [api_url |-> "http://localhost:4030", username |-> "", api_token |-> Some("")]

\* the value Config::load returns when there is no configuration file
DefaultConfig == [api_url |-> DefaultApiUrl, username |-> "", api_token |-> None]

NoFile == [exists |-> FALSE]

\* Serialize for Config (serde_json::to_string_pretty)
ConfigToJson(c) ==
    JObj([api_url |-> JStr(c.api_url), username |-> JStr(c.username),
          api_token |-> IF IsSome(c.api_token) THEN JStr(c.api_token.v) ELSE JNull])

\* Deserialize for Config (serde_json::from_str)
ConfigFromJson(j) ==
    IF /\ StringField(j, "api_url") /\ StringField(j, "username")
       /\ (HasField(j, "api_token") => j.fields.api_token.t \in {"null", "str"})
    THEN Ok([api_url |-> j.fields.api_url.s, username |-> j.fields.username.s,
             api_token |-> AsStr(JIndex(j, "api_token"))])
    ELSE Err(SerdeDataError)

\* Config::load
ConfigLoad(f) == IF ~f.exists THEN Ok(DefaultConfig) ELSE ConfigFromJson(f.json)

\* Config::save: the file after a save that succeeded
ConfigSave(c) == [exists |-> TRUE, json |-> ConfigToJson(c)]

\* std::io::Error of create_dir_all / fs::write
SaveError == Anyhow("Permission denied (os error 13)")

\* Config::with_updates
WithUpdates(c, api_url, username) ==
    [c EXCEPT !.api_url = IF IsSome(api_url) THEN api_url.v ELSE @,
              !.username = IF IsSome(username) THEN username.v ELSE @]

(***************************************************************************)
(* Api (api.rs): the requests it builds and what it makes of the replies.  *)
(* A reply of the transport is a send failure, or a status with the body   *)
(* text, whose reading can fail too.                                       *)
(***************************************************************************)
Replies ==
    {[sent |-> FALSE]}
    \cup {[sent |-> TRUE, status |-> st, text |-> Ok(b)] : st \in Statuses, b \in Bodies}
    \cup {[sent |-> TRUE, status |-> st, text |-> Err(BodyReadError)] : st \in Statuses}

\* Api::new.  The commands that construct their Api from the url alone (login,
\* rankings, streaks, query) hand the token to each call instead: their Api
\* is ApiNew(url, None).
ApiNew(base_url, token) == [base_url |-> base_url, token |-> UnwrapOrDefault(token)]

Header(name, value) == [name |-> name, value |-> value]
NoBody == [t |-> "none"]

\* the modelled texts holding a byte HeaderValue::from_str rejects
ControlCharTexts == {"a\nb"}

\* HeaderValue::from_str(&format!("Bearer {}", token))
BearerValue(token) ==
    IF token \in ControlCharTexts THEN Err(InvalidHeaderValue)
    ELSE Ok("Bearer " \o token)

\* Api::auth_headers
AuthHeaders(token) ==
    LET value == BearerValue(token) IN
    IF ~value.ok THEN value
    ELSE Ok(<<Header("authorization", value.v), Header("accept", "application/json")>>)

\* Api::login, up to send()
LoginRequest(a, username, password) ==
    Ok([method |-> "POST", url |-> a.base_url \o "/api/login",
        headers |-> <<Header("content-type", "application/json")>>,
        body |-> [t |-> "login", username |-> username, password |-> password]])

\* mutant: login accepts every 2xx status
LoginResult_AnySuccess(reply) ==
    IF ~reply.sent THEN Err(SendError)
    ELSE IF ~IsSuccess(reply.status) THEN
        IF ~reply.text.ok THEN reply.text
        ELSE Err(Anyhow("Login failed: " \o reply.text.v))
    ELSE IF ~reply.text.ok THEN reply.text
    ELSE LET data == ParseJson(reply.text.v) IN
         IF data.t = "invalid" THEN Err(JsonBodyError)
         ELSE LET token == AsStr(JIndex(data, "token")) IN
              IF IsNone(token) THEN Err(Anyhow("No token in response"))
              ELSE Ok(token.v)

\* Api::login, from the reply on
LoginResult(reply) ==
    IF ~reply.sent THEN Err(SendError)
    ELSE IF reply.status # StatusOK THEN
        IF ~reply.text.ok THEN reply.text
        ELSE Err(Anyhow("Login failed: " \o reply.text.v))
    ELSE IF ~reply.text.ok THEN reply.text
    ELSE LET data == ParseJson(reply.text.v) IN
         IF data.t = "invalid" THEN Err(JsonBodyError)
         ELSE LET token == AsStr(JIndex(data, "token")) IN
              IF IsNone(token) THEN Err(Anyhow("No token in response"))
              ELSE Ok(token.v)

\* Api::log_attendance, up to send(): RequestBuilder::header keeps the error of
\* a header value it cannot encode and send() returns it without sending
LogAttendanceRequest(a, entry) ==
    LET value == BearerValue(a.token) IN
    IF ~value.ok THEN value
    ELSE Ok([method |-> "POST", url |-> a.base_url \o "/api/log",
             headers |-> <<Header("authorization", value.v),
                           Header("content-type", "application/json")>>,
             body |-> [t |-> "entry", entry |-> entry]])

\* mutant: the error of a rejected entry does not carry the body
LogAttendanceResult_NoBody(reply) ==
    IF ~reply.sent THEN Err(SendError)
    ELSE IF IsSuccess(reply.status) THEN Ok(Unit)
    ELSE Err(Anyhow("API request failed: " \o StatusDisplay(reply.status)))

\* Api::log_attendance, from the reply on
LogAttendanceResult(reply) ==
    IF ~reply.sent THEN Err(SendError)
    ELSE IF IsSuccess(reply.status) THEN Ok(Unit)
    ELSE IF ~reply.text.ok THEN reply.text
    ELSE Err(Anyhow(reply.text.v))

\* a GET with the bearer headers: the common part of the four read operations
GetRequest(url, token) ==
    LET headers == AuthHeaders(token) IN
    IF ~headers.ok THEN headers
    ELSE Ok([method |-> "GET", url |-> url, headers |-> headers.v, body |-> NoBody])

\* Api::get_rankings, up to send()
RankingsRequest(a, token, period, date) ==
    GetRequest(a.base_url \o "/api/rankings/" \o period
                   \o (IF IsSome(date) THEN "/" \o date.v ELSE ""),
               token)

\* Api::get_streaks, up to send()
StreaksRequest(a, token) == GetRequest(a.base_url \o "/api/streaks", token)

\* Api::get_user_stats, up to send()
UserStatsRequest(a, token, username) ==
    GetRequest(a.base_url \o "/api/users/" \o username \o "/stats", token)

\* mutant: an absent `to` is emitted as an empty parameter
QueryParams_EmptyTo(from, to, user, mode, status, limit) ==
    (IF IsSome(from) THEN <<[k |-> "from", v |-> FormatDate(from.v)]>> ELSE <<>>)
    \o <<[k |-> "to", v |-> IF IsSome(to) THEN FormatDate(to.v) ELSE ""]>>
    \o (IF IsSome(user) THEN <<[k |-> "user", v |-> user.v]>> ELSE <<>>)
    \o <<[k |-> "mode", v |-> mode]>>
    \o (IF IsSome(status) THEN <<[k |-> "status", v |-> status.v]>> ELSE <<>>)
    \o (IF IsSome(limit) THEN <<[k |-> "limit", v |-> NatToString(limit.v)]>> ELSE <<>>)

\* the query_params vector of Api::query_data
QueryParams(from, to, user, mode, status, limit) ==
    (IF IsSome(from) THEN <<[k |-> "from", v |-> FormatDate(from.v)]>> ELSE <<>>)
    \o (IF IsSome(to) THEN <<[k |-> "to", v |-> FormatDate(to.v)]>> ELSE <<>>)
    \o (IF IsSome(user) THEN <<[k |-> "user", v |-> user.v]>> ELSE <<>>)
    \o <<[k |-> "mode", v |-> mode]>>
    \o (IF IsSome(status) THEN <<[k |-> "status", v |-> status.v]>> ELSE <<>>)
    \o (IF IsSome(limit) THEN <<[k |-> "limit", v |-> NatToString(limit.v)]>> ELSE <<>>)

\* .map(|(k, v)| format!("{}={}", k, v)).collect::<Vec<_>>().join("&")
RECURSIVE JoinParams(_)
JoinParams(params) ==
    IF params = <<>> THEN ""
    ELSE IF Len(params) = 1 THEN params[1].k \o "=" \o params[1].v
    ELSE params[1].k \o "=" \o params[1].v \o "&" \o JoinParams(Tail(params))

\* the url Api::query_data requests
QueryUrl(a, period, from, to, user, mode, status, limit) ==
    LET query_params == QueryParams(from, to, user, mode, status, limit) IN
    a.base_url \o "/api/query/" \o period
        \o (IF query_params # <<>> THEN "?" \o JoinParams(query_params) ELSE "")

\* Api::query_data, up to send()
QueryRequest(a, token, period, from, to, user, mode, status, limit) ==
    GetRequest(QueryUrl(a, period, from, to, user, mode, status, limit), token)

\* mutant: the body is decoded whatever the status, and a body of the expected
\* shape is returned even with an error status
HandleResponse_DecodeFirst(shape, reply) ==
    IF ~reply.text.ok THEN reply.text
    ELSE IF FromStr(shape, reply.text.v).ok THEN FromStr(shape, reply.text.v)
    ELSE IF ~IsSuccess(reply.status) THEN
        Err(Anyhow("API request failed: " \o StatusDisplay(reply.status)
                       \o " - " \o reply.text.v))
    ELSE WithContext(FromStr(shape, reply.text.v),
                     "Failed to parse response: " \o reply.text.v)

\* mutant: the serde error is returned as it is, without the body as context
HandleResponse_NoContext(shape, reply) ==
    IF ~reply.text.ok THEN reply.text
    ELSE IF ~IsSuccess(reply.status) THEN
        Err(Anyhow("API request failed: " \o StatusDisplay(reply.status)
                       \o " - " \o reply.text.v))
    ELSE FromStr(shape, reply.text.v)

\* Api::handle_response
HandleResponse(shape, reply) ==
    IF ~reply.text.ok THEN reply.text
    ELSE IF ~IsSuccess(reply.status) THEN
        Err(Anyhow("API request failed: " \o StatusDisplay(reply.status)
                       \o " - " \o reply.text.v))
    ELSE WithContext(FromStr(shape, reply.text.v),
                     "Failed to parse response: " \o reply.text.v)

\* `.send().await?` followed by handle_response in the four read operations
ReadResult(shape, reply) ==
    IF ~reply.sent THEN Err(SendError) ELSE HandleResponse(shape, reply)

(***************************************************************************)
(* The command lines (clap) and the answers to the interactive prompts     *)
(* (dialoguer) the model tries.                                            *)
(***************************************************************************)
Chars_2024_01_01 == <<"2", "0", "2", "4", "-", "0", "1", "-", "0", "1">>
Chars_2024_1_5 == <<"2", "0", "2", "4", "-", "1", "-", "5">>
Chars_2024_13_01 == <<"2", "0", "2", "4", "-", "1", "3", "-", "0", "1">>
Chars_2024_12_31 == <<"2", "0", "2", "4", "-", "1", "2", "-", "3", "1">>
Chars_Slashes == <<"0", "1", "/", "0", "2", "/", "2", "0", "2", "4">>
Chars_Trailing == <<"2", "0", "2", "4", "-", "0", "1", "-", "0", "1", "T">>

OtherApiUrl == "https://lic.example.com"

\* models::Period and its Display
Periods == {"Day", "Week", "Month"}
PeriodDisplay(p) ==
    CASE p = "Day" -> "day" [] p = "Week" -> "week" [] OTHER -> "month"

LoginCommands ==
    [kind : {"login"}, username : OptionOf({"alice"}), password : OptionOf({"pw"})]
LogCommands ==
    [kind : {"log"}, status : OptionOf({"sick", "remote", "holiday"}),
     time : OptionOf({"09:30"})]
RankingsCommands ==
    [kind : {"rankings"}, period : Periods, date : OptionOf({"2024-01-01"})]
StreaksCommands == [kind : {"streaks"}]
StatsCommands == [kind : {"stats"}, user : OptionOf({"bob"})]
ConfigCommands ==
    [kind : {"config"}, api_url : OptionOf({OtherApiUrl}), username : OptionOf({"bob"})]
QueryCommands ==
    [kind : {"query"}, period : {"day"},
     from : OptionOf({Chars_2024_1_5, Chars_2024_13_01}),
     to : OptionOf({Chars_2024_12_31, Chars_Slashes}),
     user : OptionOf({"alice"}), mode : {"last-in"}, status : {None},
     limit : OptionOf({MaxLimit})]

\* the query command lines tried for the request path alone
AllQueryCommands ==
    [kind : {"query"}, period : {"day", "week"},
     from : OptionOf({Chars_2024_01_01, Chars_2024_1_5}),
     to : OptionOf({Chars_2024_12_31, Chars_Trailing}),
     user : OptionOf({"alice"}), mode : {"last-in", "early-bird"},
     status : OptionOf({"sick"}), limit : OptionOf({0, MaxLimit})]

Commands ==
    LoginCommands \cup LogCommands \cup RankingsCommands \cup StreaksCommands
        \cup StatsCommands \cup ConfigCommands \cup QueryCommands

\* dialoguer's interact(): the answer typed, or an io::Error (no terminal)
PromptError == Anyhow("IO error: not a terminal")
Answers(S) == {Ok(x) : x \in S} \cup {Err(PromptError)}

\* the options vector of the status Select in LogCommand::run
StatusOptions == <<"in-office", "remote", "sick", "leave">>

\* Local::now()
Today == Date(2024, 3, 5)
NowTime == "08:45"

(***************************************************************************)
(* The state machine.                                                      *)
(***************************************************************************)
NoCmd == [kind |-> "none"]
NoConfig == [loaded |-> FALSE]
NoLocals == [t |-> "none"]
NoReply == [sent |-> FALSE, pending |-> TRUE]
NoResult == [returned |-> FALSE]
Returned(r) == [returned |-> TRUE, r |-> r]

Init ==
    /\ file = NoFile
    /\ pc = "idle"
    /\ cmd = NoCmd
    /\ config = NoConfig
    /\ locals = NoLocals
    /\ requests = <<>>
    /\ received = NoReply
    /\ called = NoResult
    /\ outcome = NoResult
    /\ loads = 0
    /\ saves = 0
    /\ loggedIn = FALSE

\* main, up to the dispatch: Cli::parse and Config::load
Main ==
    /\ pc = "idle"
    /\ \E c \in Commands :
        LET loaded == ConfigLoad(file) IN
        /\ cmd' = c
        /\ loads' = 1
        /\ IF loaded.ok
           THEN /\ config' = loaded.v
                /\ pc' = "run"
                /\ outcome' = outcome
           ELSE /\ config' = config
                /\ pc' = "done"
                /\ outcome' = Returned(loaded)
    /\ UNCHANGED <<file, locals, requests, received, called, saves, loggedIn>>

\* the command returns `result` to main without (further) client call
Return(result) ==
    /\ pc' = "done"
    /\ outcome' = Returned(result)

\* `.send()`: the request goes to the transport, the command awaits the reply
Send(req) ==
    /\ requests' = Append(requests, req)
    /\ pc' = "await"
    /\ outcome' = outcome

\* a client call up to its send(): it fails before, or sends its one request
Call(req) ==
    IF req.ok
    THEN Send(req.v) /\ called' = called
    ELSE Return(req) /\ called' = Returned(req) /\ requests' = requests

\* the token check of the commands that need a session (the backquotes of the
\* message are written as quotes here)
NotLoggedIn == Anyhow("Not logged in. Please run 'lic login' first.")
\* mutant: the command leaves the rejection to the server's 401
RequireToken_Unchecked(c) == Ok(UnwrapOrDefault(c.api_token))

RequireToken(c) ==
    IF IsSome(c.api_token) THEN Ok(c.api_token.v) ELSE Err(NotLoggedIn)

\* new_config of LoginCommand::run
LoginConfig(c, username, token) ==
    [c EXCEPT !.username = username, !.api_token = Some(token)]

\* Config::save called on `c`, with the result `saved` of its file operations
Save(c, saved) ==
    /\ saves' = saves + 1
    /\ file' = IF saved.ok THEN ConfigSave(c) ELSE file
SaveResults == {Ok(Unit), Err(SaveError)}

\* LoginCommand::run, up to the client call
LoginRun ==
    /\ pc = "run" /\ cmd.kind = "login"
    /\ \E typedName \in Answers({"bob"}), typedPassword \in Answers({"pw"}) :
        LET username == IF IsSome(cmd.username) THEN Ok(cmd.username.v) ELSE typedName
            password == IF IsSome(cmd.password) THEN Ok(cmd.password.v) ELSE typedPassword
        IN  IF ~username.ok
            THEN Return(username) /\ UNCHANGED <<locals, requests, called>>
            ELSE IF ~password.ok
            THEN Return(password) /\ UNCHANGED <<locals, requests, called>>
            ELSE /\ locals' = [t |-> "login", username |-> username.v]
                 /\ Call(LoginRequest(ApiNew(config.api_url, None),
                                      username.v, password.v))
    /\ UNCHANGED <<file, cmd, config, received, loads, saves, loggedIn>>

\* mutant: the username typed is saved whether login succeeded or not
LoginReply_SaveAlways ==
    /\ pc = "await" /\ cmd.kind = "login"
    /\ \E r \in Replies, saved \in SaveResults :
        LET result == LoginResult(r) IN
        /\ received' = r
        /\ called' = Returned(result)
        /\ IF result.ok
           THEN /\ Save(LoginConfig(config, locals.username, result.v), saved)
                /\ Return(saved)
                /\ loggedIn' = (loggedIn \/ saved.ok)
           ELSE /\ Save([config EXCEPT !.username = locals.username], saved)
                /\ Return(result)
                /\ UNCHANGED loggedIn
    /\ UNCHANGED <<cmd, config, locals, requests, loads>>

\* LoginCommand::run, from the reply on
LoginReply ==
    /\ pc = "await" /\ cmd.kind = "login"
    /\ \E r \in Replies, saved \in SaveResults :
        LET result == LoginResult(r) IN
        /\ received' = r
        /\ called' = Returned(result)
        /\ IF result.ok
           THEN /\ Save(LoginConfig(config, locals.username, result.v), saved)
                /\ Return(saved)
                /\ loggedIn' = (loggedIn \/ saved.ok)
           ELSE /\ Return(result)
                /\ UNCHANGED <<file, saves, loggedIn>>
    /\ UNCHANGED <<cmd, config, locals, requests, loads>>

\* the AttendanceEntry of LogCommand::run
Entry(date, time, name, status) ==
    [date |-> date, time |-> time, name |-> name, status |-> status]

\* LogCommand::run, up to the client call
LogRun ==
    /\ pc = "run" /\ cmd.kind = "log"
    /\ \E selection \in Answers(1..4), typedTime \in Answers({NowTime}) :
        LET a == ApiNew(config.api_url, config.api_token)
            status == IF IsSome(cmd.status) THEN Ok(cmd.status.v)
                      ELSE IF selection.ok THEN Ok(StatusOptions[selection.v])
                      ELSE selection
            time == IF IsSome(cmd.time) THEN Ok(cmd.time.v)
                    ELSE IF status.v \in {"sick", "leave"} THEN Ok("00:00")
                    ELSE typedTime
        IN  IF ~status.ok
            THEN Return(status) /\ UNCHANGED <<requests, called>>
            ELSE IF ~time.ok
            THEN Return(time) /\ UNCHANGED <<requests, called>>
            ELSE Call(LogAttendanceRequest(a,
                        Entry(FormatDate(Today), time.v, config.username, status.v)))
    /\ UNCHANGED <<file, cmd, config, locals, received, loads, saves, loggedIn>>

\* mutant: the entry is sent once more after a transport failure
LogReply_Retry ==
    /\ pc = "await" /\ cmd.kind = "log"
    /\ \E r \in Replies :
        LET result == LogAttendanceResult(r) IN
        /\ received' = r
        /\ IF ~r.sent /\ Len(requests) < 2
           THEN /\ requests' = Append(requests, requests[1])
                /\ UNCHANGED <<pc, called, outcome>>
           ELSE /\ called' = Returned(result)
                /\ Return(result)
                /\ requests' = requests
    /\ UNCHANGED <<file, cmd, config, locals, loads, saves, loggedIn>>

\* LogCommand::run, from the reply on
LogReply ==
    /\ pc = "await" /\ cmd.kind = "log"
    /\ \E r \in Replies :
        LET result == LogAttendanceResult(r) IN
        /\ received' = r
        /\ called' = Returned(result)
        /\ Return(result)
    /\ UNCHANGED <<file, cmd, config, locals, requests, loads, saves, loggedIn>>

\* a reading command from the reply on: handle_response, then the table
ReadReply(kind, shape) ==
    /\ pc = "await" /\ cmd.kind = kind
    /\ \E r \in Replies :
        LET result == ReadResult(shape, r) IN
        /\ received' = r
        /\ called' = Returned(result)
        /\ Return(IF result.ok THEN Ok(Unit) ELSE result)
    /\ UNCHANGED <<file, cmd, config, locals, requests, loads, saves, loggedIn>>

\* RankingsCommand::run, up to the client call
RankingsRun ==
    /\ pc = "run" /\ cmd.kind = "rankings"
    /\ LET a == ApiNew(config.api_url, None)
           token == RequireToken(config)
       IN  IF ~token.ok
           THEN Return(token) /\ UNCHANGED <<requests, called>>
           ELSE Call(RankingsRequest(a, token.v, PeriodDisplay(cmd.period), cmd.date))
    /\ UNCHANGED <<file, cmd, config, locals, received, loads, saves, loggedIn>>

RankingsReply == ReadReply("rankings", "Vec<Ranking>")

\* StreaksCommand::run, up to the client call
StreaksRun ==
    /\ pc = "run" /\ cmd.kind = "streaks"
    /\ LET a == ApiNew(config.api_url, None)
           token == RequireToken(config)
       IN  IF ~token.ok
           THEN Return(token) /\ UNCHANGED <<requests, called>>
           ELSE Call(StreaksRequest(a, token.v))
    /\ UNCHANGED <<file, cmd, config, locals, received, loads, saves, loggedIn>>

StreaksReply == ReadReply("streaks", "Vec<Streak>")

\* StatsCommand::run, up to the client call
StatsRun ==
    /\ pc = "run" /\ cmd.kind = "stats"
    /\ LET a == ApiNew(config.api_url, config.api_token)
           username == UnwrapOr(cmd.user, config.username)
           token == RequireToken(config)
       IN  IF ~token.ok
           THEN Return(token) /\ UNCHANGED <<requests, called>>
           ELSE Call(UserStatsRequest(a, token.v, username))
    /\ UNCHANGED <<file, cmd, config, locals, received, loads, saves, loggedIn>>

StatsReply == ReadReply("stats", "StatsResponse")

\* QueryCommand::run, up to the client call
QueryRun ==
    /\ pc = "run" /\ cmd.kind = "query"
    /\ LET a == ApiNew(config.api_url, None)
           token == RequireToken(config)
           from_date == ParseOptDate(cmd.from)
           to_date == ParseOptDate(cmd.to)
       IN  IF ~token.ok
           THEN Return(token) /\ UNCHANGED <<requests, called>>
           ELSE IF ~from_date.ok
           THEN Return(from_date) /\ UNCHANGED <<requests, called>>
           ELSE IF ~to_date.ok
           THEN Return(to_date) /\ UNCHANGED <<requests, called>>
           ELSE Call(QueryRequest(a, token.v, cmd.period, from_date.v, to_date.v,
                                  cmd.user, cmd.mode, cmd.status, cmd.limit))
    /\ UNCHANGED <<file, cmd, config, locals, received, loads, saves, loggedIn>>

QueryReply == ReadReply("query", "Vec<QueryResult>")

\* mutant: the updates are applied to a default configuration, not to a clone
\* of the loaded one
ConfigRun_FromDefaults ==
    /\ pc = "run" /\ cmd.kind = "config"
    /\ \E typedUrl \in Answers({config.api_url, OtherApiUrl}),
          typedName \in Answers({config.username, "alice"}),
          saved \in SaveResults :
        LET withUrl == IF IsSome(cmd.api_url)
                       THEN [DefaultConfig EXCEPT !.api_url = cmd.api_url.v]
                       ELSE DefaultConfig
            withName == IF IsSome(cmd.username)
                        THEN [withUrl EXCEPT !.username = cmd.username.v] ELSE withUrl
            modified == IsSome(cmd.api_url) \/ IsSome(cmd.username)
        IN  IF modified
            THEN Save(withName, saved) /\ Return(saved)
            ELSE IF ~typedUrl.ok
            THEN Return(typedUrl) /\ UNCHANGED <<file, saves>>
            ELSE IF ~typedName.ok
            THEN Return(typedName) /\ UNCHANGED <<file, saves>>
            ELSE /\ Save([DefaultConfig EXCEPT !.api_url = typedUrl.v,
                                               !.username = typedName.v], saved)
                 /\ Return(saved)
    /\ UNCHANGED <<cmd, config, locals, requests, received, called, loads, loggedIn>>

\* ConfigCommand::run
ConfigRun ==
    /\ pc = "run" /\ cmd.kind = "config"
    /\ \E typedUrl \in Answers({config.api_url, OtherApiUrl}),
          typedName \in Answers({config.username, "alice"}),
          saved \in SaveResults :
        LET withUrl == IF IsSome(cmd.api_url)
                       THEN [config EXCEPT !.api_url = cmd.api_url.v] ELSE config
            withName == IF IsSome(cmd.username)
                        THEN [withUrl EXCEPT !.username = cmd.username.v] ELSE withUrl
            modified == IsSome(cmd.api_url) \/ IsSome(cmd.username)
        IN  IF modified
            THEN Save(withName, saved) /\ Return(saved)
            ELSE IF ~typedUrl.ok
            THEN Return(typedUrl) /\ UNCHANGED <<file, saves>>
            ELSE IF ~typedName.ok
            THEN Return(typedName) /\ UNCHANGED <<file, saves>>
            ELSE /\ Save([config EXCEPT !.api_url = typedUrl.v,
                                        !.username = typedName.v], saved)
                 /\ Return(saved)
    /\ UNCHANGED <<cmd, config, locals, requests, received, called, loads, loggedIn>>

\* the process exits; the next invocation starts from the file alone
Exit ==
    /\ pc = "done"
    /\ pc' = "idle"
    /\ cmd' = NoCmd
    /\ config' = NoConfig
    /\ locals' = NoLocals
    /\ requests' = <<>>
    /\ received' = NoReply
    /\ called' = NoResult
    /\ outcome' = NoResult
    /\ loads' = 0
    /\ saves' = 0
    /\ UNCHANGED <<file, loggedIn>>

Next ==
    \/ Main
    \/ LoginRun \/ LoginReply
    \/ LogRun \/ LogReply
    \/ RankingsRun \/ RankingsReply
    \/ StreaksRun \/ StreaksReply
    \/ StatsRun \/ StatsReply
    \/ QueryRun \/ QueryReply
    \/ ConfigRun
    \/ Exit

Spec == Init /\ [][Next]_vars

(***************************************************************************)
(* The query command alone, over more command lines: a query command is    *)
(* about to run with the session of a logged-in user.                      *)
(***************************************************************************)
QueryInit ==
    /\ cmd \in AllQueryCommands
    /\ config \in [api_url : {DefaultApiUrl, OtherApiUrl}, username : {"alice"},
                   api_token : {Some("tok1")}]
    /\ file = ConfigSave(config)
    /\ pc = "run"
    /\ locals = NoLocals
    /\ requests = <<>>
    /\ received = NoReply
    /\ called = NoResult
    /\ outcome = NoResult
    /\ loads = 1
    /\ saves = 0
    /\ loggedIn = TRUE

QueryNext == QueryRun

QuerySpec == QueryInit /\ [][QueryNext]_vars

(***************************************************************************)
(* Properties.                                                             *)
(***************************************************************************)
\* the session as the next invocation would load it
Persisted == ConfigLoad(file)
Finished(kind) == pc = "done" /\ cmd.kind = kind /\ outcome.returned
ReadKinds == {"rankings", "streaks", "stats", "query"}
Loaded == config # NoConfig

\* C1: a rankings, streaks, stats or query command that loaded a session
\* without token ends with the "Not logged in" error and has sent no request,
\* whatever its arguments
C1_NoTokenNoRequest ==
    (cmd.kind \in ReadKinds /\ Loaded /\ pc # "run" /\ IsNone(config.api_token))
        => /\ pc = "done"
           /\ outcome = Returned(Err(NotLoggedIn))
           /\ requests = <<>>
           /\ received = NoReply

\* a query command with a malformed --from ended without token
C1_Witness ==
    /\ Finished("query") /\ IsNone(config.api_token)
    /\ cmd.from = Some(Chars_2024_13_01)
    /\ outcome.r = Err(NotLoggedIn) /\ requests = <<>>

\* C2: until a login command has returned Ok, the persisted session has no
\* token, whatever commands ran since the first run
C2_TokenAbsentUntilLogin ==
    ~loggedIn => (Persisted.ok /\ IsNone(Persisted.v.api_token))

\* a login failed after a config command had written the file
C2_Witness ==
    /\ ~loggedIn /\ file.exists
    /\ Finished("login") /\ received.sent /\ ~outcome.r.ok
    /\ IsNone(Persisted.v.api_token)

\* C3 (as claimed): after a login command that returned Ok the persisted
\* token is present, non-empty and the token member of the server's response
C3_TokenNonEmptyAfterLogin ==
    (Finished("login") /\ outcome.r.ok)
        => /\ Persisted.ok
           /\ IsSome(Persisted.v.api_token)
           /\ Persisted.v.api_token.v # ""
           /\ JStr(Persisted.v.api_token.v) = JIndex(ParseJson(received.text.v), "token")

\* C4: login fails for every status other than 200, 201 and 204 included,
\* with the body verbatim in the message; a token is returned only on 200
C4_LoginOnly200 ==
    (Finished("login") /\ received.sent)
        => /\ received.status # 200 => ~called.r.ok
           /\ (received.status # 200 /\ received.text.ok)
                => called.r.e.msg = "Login failed: " \o received.text.v
           /\ called.r.ok => received.status = 200

\* a 201 reply carrying a token body made login fail with that body
C4_Witness ==
    /\ Finished("login") /\ received.sent
    /\ received.status = 201 /\ received.text = Ok(BodyToken)
    /\ called.r = Err(Anyhow("Login failed: " \o BodyToken))
    /\ outcome.r = called.r

\* the result type each reading command asks handle_response for
ShapeOf(kind) ==
    CASE kind = "rankings" -> "Vec<Ranking>"
      [] kind = "streaks" -> "Vec<Streak>"
      [] kind = "stats" -> "StatsResponse"
      [] OTHER -> "Vec<QueryResult>"

\* a reading command got a reply whose body text was read
ReadReplied ==
    /\ pc = "done" /\ cmd.kind \in ReadKinds /\ received.sent /\ received.text.ok

\* C5: a read operation that gets a non-2xx reply fails with an error made of
\* the status code and the body text exactly as received; nothing is decoded
\* (the error wraps no parse error) and no typed result is returned
C5_ErrorCarriesStatusAndBody ==
    (ReadReplied /\ ~(received.status \in 200..299))
        => /\ called.returned /\ ~called.r.ok
           /\ called.r.e.msg =
                "API request failed: " \o NatToString(received.status) \o " "
                    \o CanonicalReason(received.status) \o " - " \o received.text.v
           /\ called.r.e.source = ""
           /\ outcome = called

\* rankings got a 400 whose body would decode as rankings
C5_Witness ==
    /\ ReadReplied /\ cmd.kind = "rankings"
    /\ received.status = 400 /\ received.text.v = BodyRankings
    /\ called.r.e.msg = "API request failed: 400 Bad Request - " \o BodyRankings

\* the body denotes a JSON value of the shape the command expects
Decodable(kind, text) ==
    /\ ParseJson(text).t # "invalid"
    /\ IsShape(ShapeOf(kind), ParseJson(text))

\* C6: a read operation that gets a 2xx reply whose body does not parse into
\* the expected shape fails with an error that has the raw body in its message
\* and wraps the parse error; a value is returned only for a body of the
\* expected shape, and a 2xx reply never gives the status error
C6_DecodeErrorCarriesBody ==
    (ReadReplied /\ received.status \in 200..299)
        => /\ called.returned
           /\ called.r.ok <=> Decodable(cmd.kind, received.text.v)
           /\ ~called.r.ok =>
                /\ called.r.e.msg = "Failed to parse response: " \o received.text.v
                /\ called.r.e.source \in {SerdeSyntaxError.msg, SerdeDataError.msg}
                /\ outcome = called
           /\ called.r.ok => called.r.v.shape = ShapeOf(cmd.kind)

\* rankings got a 200 whose body is JSON of another shape
C6_Witness ==
    /\ ReadReplied /\ cmd.kind = "rankings"
    /\ received.status = 200 /\ received.text.v = BodyStats
    /\ called.r = Err([msg |-> "Failed to parse response: " \o BodyStats,
                       source |-> SerdeDataError.msg])

\* C7: log_attendance returns Ok exactly for a 2xx reply; for any other reply
\* whose body was read it fails with the body as message
C7_LogAttendanceStatus ==
    (Finished("log") /\ received.sent)
        => /\ called.returned
           /\ called.r.ok <=> received.status \in 200..299
           /\ (~(received.status \in 200..299) /\ received.text.ok)
                => called.r.e.msg = received.text.v
           /\ outcome = called

\* the entry was rejected with 400 and the body {"error":"invalid status"}
C7_Witness ==
    /\ Finished("log") /\ received.sent
    /\ received.status = 400 /\ received.text = Ok(BodyError)
    /\ called.r.e.msg = "{\"error\":\"" \o "invalid status" \o "\"}"
    /\ ~outcome.r.ok

\* what a --from/--to text reads as, written YYYY-MM-DD
DateText(chars) ==
    CASE chars = Chars_2024_01_01 -> "2024-01-01"
      [] chars = Chars_2024_1_5 -> "2024-01-05"
      [] chars = Chars_2024_12_31 -> "2024-12-31"
      [] OTHER -> "?"

\* the path and query a query command line asks for
ExpectedQueryPath(c) ==
    "/api/query/" \o c.period \o "?"
        \o (IF IsSome(c.from) THEN "from=" \o DateText(c.from.v) \o "&" ELSE "")
        \o (IF IsSome(c.to) THEN "to=" \o DateText(c.to.v) \o "&" ELSE "")
        \o (IF IsSome(c.user) THEN "user=" \o c.user.v \o "&" ELSE "")
        \o "mode=" \o c.mode
        \o (IF IsSome(c.status) THEN "&status=" \o c.status.v ELSE "")
        \o (IF IsSome(c.limit) THEN "&limit=" \o ToString(c.limit.v) ELSE "")

\* C8: the url query_data requests is the base url, /api/query/{period}? and
\* the supplied parameters alone as key=value joined by &, in the order from,
\* to, user, mode, status, limit, mode always there, dates as YYYY-MM-DD
C8_QueryString ==
    (cmd.kind = "query" /\ pc = "await")
        => /\ Len(requests) = 1
           /\ requests[1].method = "GET"
           /\ requests[1].url = config.api_url \o ExpectedQueryPath(cmd)

\* from=2024-01-01, no to, mode last-in: no `to=` fragment
C8_Witness ==
    /\ cmd.kind = "query" /\ pc = "await"
    /\ cmd.period = "day" /\ cmd.from = Some(Chars_2024_01_01) /\ IsNone(cmd.to)
    /\ IsNone(cmd.user) /\ cmd.mode = "last-in" /\ IsNone(cmd.status)
    /\ IsNone(cmd.limit)
    /\ requests[1].url = config.api_url \o "/api/query/day?from=2024-01-01&mode=last-in"

\* the positions of the Authorization headers of a request
AuthorizationHeaders(req) ==
    {i \in DOMAIN req.headers : req.headers[i].name = "authorization"}

\* C9 (as claimed): the request of log_attendance carries
\* Authorization: Bearer <token> when the session has a token, and no
\* Authorization header when it has none
C9_BearerOnlyWithToken ==
    (cmd.kind = "log" /\ requests # <<>>)
        => IF IsSome(config.api_token)
           THEN \E i \in AuthorizationHeaders(requests[1]) :
                    requests[1].headers[i].value = "Bearer " \o config.api_token.v
           ELSE AuthorizationHeaders(requests[1]) = {}

C10_NoRequestWitness ==
    /\ Finished("rankings") /\ requests = <<>>
    /\ called.returned /\ called.r = Err(InvalidHeaderValue)

\* the commands that may write the session: config, and login once its client
\* call has returned Ok
MayWrite(kind, result) ==
    kind = "config" \/ (kind = "login" /\ result.returned /\ result.r.ok)

\* C11: in one invocation the session is loaded once, at startup, and saved
\* once at most; it is saved, and the file changes, only in a config command
\* or in a login command whose client call returned Ok: log, rankings,
\* streaks, stats, query and a login whose call failed leave the file as it was
C11_ReadOnceWriteAtMostOnce ==
    /\ [](/\ loads <= 1 /\ saves <= 1
          /\ pc \in {"run", "await", "done"} => loads = 1
          /\ saves = 1 => (pc = "done" /\ MayWrite(cmd.kind, called)))
    /\ [][(file' # file \/ saves' > saves) => MayWrite(cmd.kind, called')]_vars
    /\ [][loads' > loads => pc = "idle"]_vars

\* a login whose client call failed ended with an existing file never saved
C11_Witness ==
    /\ Finished("login") /\ received.sent /\ called.returned /\ ~called.r.ok
    /\ file.exists /\ loads = 1 /\ saves = 0

\* the entries the log command has sent
SentEntries ==
    {requests[i].body.entry :
        i \in {j \in 1..Len(requests) : requests[j].body.t = "entry"}}

\* C12: every entry the log command sends with status sick or leave has the
\* time "00:00", whether --status and --time were given or prompted for, and
\* every entry sent has a status among in-office, remote, sick and leave
C12_AbsenceTimeAndStatus ==
    cmd.kind = "log" =>
        \A entry \in SentEntries :
            /\ entry.status \in {"sick", "leave"} => entry.time = "00:00"
            /\ entry.status \in {"in-office", "remote", "sick", "leave"}

\* the --from/--to texts of the commands that are no YYYY-MM-DD date, each
\* with the error chrono gives for it
BadDateTexts == {Chars_2024_13_01, Chars_Slashes, Chars_Trailing}
BadDateError(chars) ==
    CASE chars = Chars_2024_13_01 -> DateRangeError
      [] chars = Chars_Slashes -> DateParseError
      [] chars = Chars_Trailing -> DateTooLongError
BadFrom == IsSome(cmd.from) /\ cmd.from.v \in BadDateTexts
BadTo == IsSome(cmd.to) /\ cmd.to.v \in BadDateTexts

\* C13: a query command whose --from or --to is no YYYY-MM-DD date fails
\* locally and sends no request, with a token or without one; with a token the
\* error is the date's parse error (that of --from first), without one the token
\* check has failed before the dates are read; and every query invocation that
\* ends with a date parse error has sent no request
C13_BadDateNoRequest ==
    cmd.kind = "query" =>
        /\ (BadFrom \/ BadTo) =>
            /\ pc \in {"run", "done"}
            /\ requests = <<>> /\ ~received.sent /\ ~called.returned
            /\ pc = "done" =>
                /\ outcome.returned /\ ~outcome.r.ok
                /\ outcome.r.e =
                     IF IsNone(config.api_token) THEN NotLoggedIn
                     ELSE IF BadFrom THEN BadDateError(cmd.from.v)
                     ELSE BadDateError(cmd.to.v)
        /\ (/\ pc = "done" /\ outcome.returned /\ ~outcome.r.ok
            /\ outcome.r.e \in {DateParseError, DateTooLongError, DateRangeError})
           => requests = <<>> /\ ~received.sent

\* with a token stored, a query with a good --from and a --to written with
\* slashes ended with the parse error and nothing sent
C13_Witness ==
    /\ Finished("query") /\ IsSome(config.api_token)
    /\ cmd.from = Some(Chars_2024_1_5) /\ cmd.to = Some(Chars_Slashes)
    /\ outcome.r = Err(DateParseError)
    /\ requests = <<>> /\ ~received.sent

\* what a write of one command may do to the session: old and new are the
\* session stored before and after it
ConfigFrame(old, new) ==
    /\ new.api_token = old.api_token
    /\ IF IsSome(cmd.api_url) \/ IsSome(cmd.username)
       THEN /\ new.api_url = IF IsSome(cmd.api_url) THEN cmd.api_url.v ELSE old.api_url
            /\ new.username = IF IsSome(cmd.username) THEN cmd.username.v
                              ELSE old.username
       ELSE TRUE
LoginFrame(old, new, result) ==
    /\ new.api_url = old.api_url
    /\ result.returned /\ result.r.ok
    /\ new.api_token = Some(result.r.v)
    /\ new.username = locals.username

\* C14: a config command, with flags or prompted, changes only api_url and
\* username of the stored session and leaves its token as it was, so that once
\* a login has stored a token the session holds one after any commands that
\* follow; a successful login changes only username and token and leaves
\* api_url as it was
C14_WritesKeepOtherFields ==
    /\ [](loggedIn => (Persisted.ok /\ IsSome(Persisted.v.api_token)))
    /\ [](pc \in {"run", "await"} => Persisted = Ok(config))
    /\ [][file' # file =>
            /\ ConfigLoad(file').ok
            /\ cmd.kind = "config" =>
                 ConfigFrame(ConfigLoad(file).v, ConfigLoad(file').v)
            /\ cmd.kind = "login" =>
                 LoginFrame(ConfigLoad(file).v, ConfigLoad(file').v, called')]_vars

\* a config command run with a token stored has changed the api_url and the
\* token is still the one login stored
C14_Witness ==
    /\ Finished("config") /\ outcome.r.ok /\ saves = 1 /\ loggedIn
    /\ config.api_token = Some("tok1") /\ config.api_url = DefaultApiUrl
    /\ Persisted.v.api_token = Some("tok1") /\ Persisted.v.api_url = OtherApiUrl

====
